---- MODULE Spec2Model ----
(***************************************************************************)
(* AdaptiveRetina (src/server.py): a camera manager with one shared        *)
(* observation slot, a background capture loop (_visual_cortex_loop) and   *)
(* the caller operations start, stop, set_interval (through configure_eye) *)
(* and get_vision.  Caller threads and worker threads interleave at the    *)
(* granularity of their accesses to the manager's fields.                  *)
(*                                                                         *)
(* Units: times and intervals are whole seconds; brightness and motion are *)
(* thousandths of a grey level (so that round(x, 2) is not the identity).  *)
(***************************************************************************)
EXTENDS Integers, Sequences, FiniteSets, TLC

(* ------------------------------ bounds --------------------------------- *)
\* caller threads are numbered 1..NCallers
NCallers == 2
\* thread objects the manager may create over one behaviour
MaxThreads == 2
\* value of time.time() when the manager is constructed (an epoch time, far
\* beyond every interval, so that the first capture is never gated)
T0 == 1000

\* seconds the clock runs in the specification of the timed scenario
Horizon == 4

(* ------------------------- program constants --------------------------- *)
default_camera_index == 0
initial_interval == 5
hibernation_threshold == 300
hibernation_interval == 60
\* range(4) of the failover scan
failover_range == 4

Callers == 1..NCallers
Threads == 1..MaxThreads
\* arguments given to configure_eye / set_interval
Intervals == {-1, 0, 1}
\* seconds after T0 at which the steps of a behaviour happen: the start, one
\* second on, the hibernation threshold exactly and one second beyond it
Instants == {0, 1, 300, 301}
\* sets of device indices that open at the moment of an acquisition
AvailSets == {{}, {0}, {2}, {2, 3}}
\* grayscale images (eight pixels) the device can deliver
Dark == <<0, 0, 0, 0, 0, 0, 0, 0>>
Dim == <<3, 0, 0, 0, 0, 0, 0, 0>>
Frames == {Dark, Dim}

None == <<>>
NoThread == 0
NoCap == -1

VARIABLES
    camera_index,       \* self.camera_index
    interval_seconds,   \* self.interval_seconds (the effective interval)
    current_buffer,     \* self.current_buffer: None or the encoded image
    last_capture_time,  \* self.last_capture_time
    running,            \* self.running
    lock,               \* self.lock: NoThread when free, else the worker holding it
    thread,             \* self.thread: NoThread or a thread object
    camera_error,       \* self._camera_error
    prev_frame_gray,    \* self.prev_frame_gray: None or a grayscale image
    current_brightness, \* self.current_brightness
    current_motion,     \* self.current_motion
    last_access_time,   \* self.last_access_time
    base_interval,      \* self.base_interval
    now,                \* time.time()
    wk,                 \* the thread objects: position and locals of each worker
    pc,                 \* position of each caller thread
    arg,                \* local of each caller: interval argument or join target
    ret,                \* the value returned at this step: by a caller's call, or
                        \* (by 0) by the worker's _try_open_camera
    was,                \* per caller in stop(): the workers alive when it was called
    lastcap,            \* record of the last capture whose publication completed
    seen                \* what get_vision last returned since the slot was last written

vars == << camera_index, interval_seconds, current_buffer, last_capture_time,
           running, lock, thread, camera_error, prev_frame_gray,
           current_brightness, current_motion, last_access_time, base_interval,
           now, wk, pc, arg, ret, was, lastcap, seen >>

slot == << current_buffer, current_brightness, current_motion, lock >>
device == << camera_index, camera_error >>
regulator == << interval_seconds, base_interval, last_access_time >>
lifecycle == << running, thread >>

(* ------------------------------ helpers -------------------------------- *)
Max(a, b) == IF a >= b THEN a ELSE b
Abs(a) == IF a >= 0 THEN a ELSE -a

RECURSIVE SumSeq(_)
SumSeq(s) == IF s = <<>> THEN 0 ELSE Head(s) + SumSeq(Tail(s))

\* np.mean of an image, in thousandths
Mean(img) == (SumSeq(img) * 1000) \div Len(img)

\* cv2.absdiff of two images
AbsDiff(a, b) == [i \in 1..Len(a) |-> Abs(a[i] - b[i])]

\* round(x, 2) of a non-negative x in thousandths: nearest hundredth, ties to even
Round2(x) ==
    LET q == x \div 10
        r == x % 10
    IN  10 * (IF r > 5 \/ (r = 5 /\ q % 2 = 1) THEN q + 1 ELSE q)

\* cv2.imencode + base64: an opaque injective encoding of the frame
Encode(frame) == << "jpg_b64", frame >>

\* _calculate_qualia: brightness and motion of a frame against the stored snapshot
Brightness(gray) == Mean(gray)

\* the difference taken after the snapshot was replaced by the new frame
MotionAfterReplace(prev, gray) ==
    IF prev # None THEN Mean(AbsDiff(gray, gray)) ELSE 0

Motion(prev, gray) == IF prev # None THEN Mean(AbsDiff(prev, gray)) ELSE 0

\* f"Optic Nerve adjusted to {interval_seconds}s heartbeat."
Confirmation(interval) == [op |-> "configure_eye", names |-> interval]

Idle == [st |-> "none", cap |-> NoCap, tsa |-> 0, now |-> 0,
         jpg |-> None, brightness |-> 0, motion |-> 0]

NoRet == [by |-> 0, val |-> [op |-> "none"]]
Returned(c, v) == [by |-> c, val |-> v]

Alive(t) == wk[t].st \notin {"none", "created", "dead"}
AliveSet == {t \in Threads : Alive(t)}
Allocated == {t \in Threads : wk[t].st # "none"}
Spawning == {c \in Callers : pc[c] \in {"start_set", "start_create"}}

(* ------------------------------- Init ---------------------------------- *)
Init ==
    /\ camera_index = default_camera_index
    /\ interval_seconds = initial_interval
    /\ current_buffer = None
    /\ last_capture_time = 0
    /\ running = FALSE
    /\ lock = NoThread
    /\ thread = NoThread
    /\ camera_error = FALSE
    /\ prev_frame_gray = None
    /\ current_brightness = 0
    /\ current_motion = 0
    /\ last_access_time = T0
    /\ base_interval = initial_interval
    /\ now = T0
    /\ wk = [t \in Threads |-> Idle]
    /\ pc = [c \in Callers |-> "idle"]
    /\ arg = [c \in Callers |-> 0]
    /\ ret = NoRet
    /\ was = [c \in Callers |-> {}]
    /\ lastcap = None
    /\ seen = None

(* ------------------------------ the clock ------------------------------ *)
\* time passing between two steps, up to a later one of the given instants
Advance(instants) ==
    /\ \E e \in instants :
          /\ T0 + e > now
          /\ now' = T0 + e
    /\ ret' = NoRet
    /\ UNCHANGED << slot, device, regulator, lifecycle, last_capture_time,
                    prev_frame_gray, wk, pc, arg, was, lastcap, seen >>

(* ------------------------ start(), lines 40-47 ------------------------- *)
\* line 42: if self.running
AlreadyRunning == running

\* lines 42-43: the check; a call that finds running set returns at once
StartCheck(c) ==
    /\ pc[c] = "idle"
    /\ IF AlreadyRunning
       THEN /\ ret' = Returned(c, [op |-> "start", outcome |-> "noop"])
            /\ UNCHANGED pc
       ELSE /\ Cardinality(Allocated) + Cardinality(Spawning) < MaxThreads
            /\ pc' = [pc EXCEPT ![c] = "start_set"]
            /\ ret' = NoRet
    /\ UNCHANGED << slot, device, regulator, lifecycle, last_capture_time,
                    prev_frame_gray, now, wk, arg, was, lastcap, seen >>

\* line 44: self.running = True
StartSet(c) ==
    /\ pc[c] = "start_set"
    /\ running' = TRUE
    /\ pc' = [pc EXCEPT ![c] = "start_create"]
    /\ ret' = NoRet
    /\ UNCHANGED << slot, device, regulator, thread, last_capture_time,
                    prev_frame_gray, now, wk, arg, was, lastcap, seen >>

\* line 45: self.thread = threading.Thread(...), a new object not yet started
StartCreate(c) ==
    /\ pc[c] = "start_create"
    /\ \E t \in Threads :
          /\ wk[t].st = "none"
          /\ \A u \in Threads : u < t => wk[u].st # "none"
          /\ wk' = [wk EXCEPT ![t].st = "created"]
          /\ thread' = t
    /\ pc' = [pc EXCEPT ![c] = "start_run"]
    /\ ret' = NoRet
    /\ UNCHANGED << slot, device, regulator, running, last_capture_time,
                    prev_frame_gray, now, arg, was, lastcap, seen >>

\* line 46: self.thread.start(), on whatever object self.thread names now;
\* starting a thread a second time raises RuntimeError
StartRun(c) ==
    /\ pc[c] = "start_run"
    /\ IF wk[thread].st = "created"
       THEN /\ wk' = [wk EXCEPT ![thread].st = "loop"]
            /\ ret' = Returned(c, [op |-> "start", outcome |-> "spawned"])
       ELSE /\ ret' = Returned(c, [op |-> "start", outcome |-> "RuntimeError"])
            /\ UNCHANGED wk
    /\ pc' = [pc EXCEPT ![c] = "idle"]
    /\ UNCHANGED << slot, device, regulator, lifecycle, last_capture_time,
                    prev_frame_gray, now, arg, was, lastcap, seen >>

(* ------------------------- stop(), lines 49-54 ------------------------- *)
\* line 51: self.running = False
StopSet(c) ==
    /\ pc[c] = "idle"
    /\ running' = FALSE
    /\ was' = [was EXCEPT ![c] = AliveSet]
    /\ pc' = [pc EXCEPT ![c] = "stop_join"]
    /\ ret' = NoRet
    /\ UNCHANGED << slot, device, regulator, thread, last_capture_time,
                    prev_frame_gray, now, wk, arg, lastcap, seen >>

\* lines 52-53: if self.thread: self.thread.join(); joining a thread that was
\* never started raises RuntimeError
StopJoin(c) ==
    /\ pc[c] = "stop_join"
    /\ IF thread = NoThread
       THEN /\ ret' = Returned(c, [op |-> "stop", outcome |-> "returned"])
            /\ pc' = [pc EXCEPT ![c] = "idle"]
            /\ was' = [was EXCEPT ![c] = {}]
            /\ UNCHANGED arg
       ELSE IF wk[thread].st = "created"
       THEN /\ ret' = Returned(c, [op |-> "stop", outcome |-> "RuntimeError"])
            /\ pc' = [pc EXCEPT ![c] = "idle"]
            /\ was' = [was EXCEPT ![c] = {}]
            /\ UNCHANGED arg
       ELSE /\ arg' = [arg EXCEPT ![c] = thread]
            /\ pc' = [pc EXCEPT ![c] = "stop_wait"]
            /\ ret' = NoRet
            /\ UNCHANGED was
    /\ UNCHANGED << slot, device, regulator, lifecycle, last_capture_time,
                    prev_frame_gray, now, wk, lastcap, seen >>

\* line 53: join() returns once the joined thread has exited
StopWait(c) ==
    /\ pc[c] = "stop_wait"
    /\ wk[arg[c]].st = "dead"
    /\ ret' = Returned(c, [op |-> "stop", outcome |-> "returned"])
    /\ pc' = [pc EXCEPT ![c] = "idle"]
    /\ arg' = [arg EXCEPT ![c] = 0]
    /\ was' = [was EXCEPT ![c] = {}]
    /\ UNCHANGED << slot, device, regulator, lifecycle, last_capture_time,
                    prev_frame_gray, now, wk, lastcap, seen >>

(* --------- configure_eye -> set_interval, lines 56-61, 206-216 --------- *)
\* set_interval without the clamp
Unclamped(interval) == interval

\* line 58: max(0.0, interval)
Clamped(interval) == Max(0, interval)

\* line 58: self.base_interval = max(0.0, interval)
SetBase(c, intervals) ==
    /\ pc[c] = "idle"
    /\ \E x \in intervals :
          /\ base_interval' = Clamped(x)
          /\ arg' = [arg EXCEPT ![c] = x]
    /\ pc' = [pc EXCEPT ![c] = "set_eff"]
    /\ ret' = NoRet
    /\ UNCHANGED << slot, device, interval_seconds, last_access_time, lifecycle,
                    last_capture_time, prev_frame_gray, now, wk, was, lastcap,
                    seen >>

\* line 59: self.interval_seconds = self.base_interval
SetEff(c) ==
    /\ pc[c] = "set_eff"
    /\ interval_seconds' = base_interval
    /\ pc' = [pc EXCEPT ![c] = "set_touch"]
    /\ ret' = NoRet
    /\ UNCHANGED << slot, device, base_interval, last_access_time, lifecycle,
                    last_capture_time, prev_frame_gray, now, wk, arg, was,
                    lastcap, seen >>

\* line 216: the string configure_eye returns is built from its own argument
Confirm(interval) == Confirmation(interval)

\* line 60: self.last_access_time = time.time(); then configure_eye returns
SetTouch(c) ==
    /\ pc[c] = "set_touch"
    /\ last_access_time' = now
    /\ ret' = Returned(c, Confirm(arg[c]))
    /\ pc' = [pc EXCEPT ![c] = "idle"]
    /\ arg' = [arg EXCEPT ![c] = 0]
    /\ UNCHANGED << slot, device, interval_seconds, base_interval, lifecycle,
                    last_capture_time, prev_frame_gray, now, wk, was, lastcap,
                    seen >>

(* ---------------------- get_vision(), lines 160-188 -------------------- *)
\* get_vision testing for a missing image before the error flag
VisionDarkFirst ==
    IF current_buffer = None
    THEN [op |-> "get_vision", status |-> "DARKNESS",
          message |-> "Initializing...", timestamp |-> now]
    ELSE IF camera_error
    THEN [op |-> "get_vision", status |-> "BLIND",
          error |-> "All cameras disconnected.", timestamp |-> now]
    ELSE [op |-> "get_vision", status |-> "SIGHT",
          image_base64 |-> current_buffer,
          brightness |-> Round2(current_brightness),
          motion |-> Round2(current_motion),
          interval |-> interval_seconds,
          camera_id |-> camera_index,
          timestamp |-> last_capture_time]

\* lines 166-188: the mapping returned for the slot as it stands
Vision ==
    IF camera_error
    THEN [op |-> "get_vision", status |-> "BLIND",
          error |-> "All cameras disconnected.", timestamp |-> now]
    ELSE IF current_buffer = None
    THEN [op |-> "get_vision", status |-> "DARKNESS",
          message |-> "Initializing...", timestamp |-> now]
    ELSE [op |-> "get_vision", status |-> "SIGHT",
          image_base64 |-> current_buffer,
          brightness |-> Round2(current_brightness),
          motion |-> Round2(current_motion),
          interval |-> interval_seconds,
          camera_id |-> camera_index,
          timestamp |-> last_capture_time]

\* get_vision leaving the last access time as it was
StaleAccessTime == last_access_time

\* line 163: the value get_vision stores as the last access time
AccessTime == now

\* line 163: self.last_access_time = time.time()
GetTouch(c) ==
    /\ pc[c] = "idle"
    /\ last_access_time' = AccessTime
    /\ pc' = [pc EXCEPT ![c] = "get_read"]
    /\ ret' = NoRet
    /\ UNCHANGED << slot, device, interval_seconds, base_interval, lifecycle,
                    last_capture_time, prev_frame_gray, now, wk, arg, was,
                    lastcap, seen >>

\* the captured record a SIGHT result carries (lines 180-187)
CapturedRecord(v) == [image |-> v.image_base64, brightness |-> v.brightness,
                      motion |-> v.motion, timestamp |-> v.timestamp]

\* line 165: with self.lock
LockFree == lock = NoThread

\* lines 165-188: under the lock, build and return the mapping
GetRead(c) ==
    /\ pc[c] = "get_read"
    /\ LockFree
    /\ ret' = Returned(c, Vision)
    /\ seen' = IF Vision.status = "SIGHT" THEN CapturedRecord(Vision) ELSE seen
    /\ pc' = [pc EXCEPT ![c] = "idle"]
    /\ UNCHANGED << slot, device, regulator, lifecycle, last_capture_time,
                    prev_frame_gray, now, wk, arg, was, lastcap >>

(* ---------------- _try_open_camera(), lines 81-98 ---------------------- *)
MinOf(S) == CHOOSE i \in S : \A j \in S : i <= j
MaxOf(S) == CHOOSE i \in S : \A j \in S : i >= j

\* lines 90-96: for i in range(4), from i on: skip the current index, return
\* the first index that opens
RECURSIVE Scan(_, _, _)
Scan(i, index, avail) ==
    IF i >= failover_range THEN NoCap
    ELSE IF i # index /\ i \in avail THEN i
    ELSE Scan(i + 1, index, avail)

\* the acquisition keeping the last index of the scan that opens
TryOpenLast(index, avail) ==
    IF index \in avail
    THEN index
    ELSE LET others == {i \in 0..(failover_range - 1) : i # index /\ i \in avail}
         IN  IF others = {} THEN NoCap ELSE MaxOf(others)

\* the index whose handle is returned when the devices in avail open, or NoCap:
\* the current index first (lines 84-86), then the scan
TryOpen(index, avail) ==
    IF index \in avail
    THEN index
    ELSE Scan(0, index, avail)

\* what an acquisition reports: the index it tried first, the devices that
\* opened and the index of the handle it returned
Acquisition(index, avail, got) ==
    [by |-> 0, val |-> [op |-> "try_open", index |-> index, avail |-> avail,
                        got |-> got]]

(* ---------------- _visual_cortex_loop(), lines 100-158 ----------------- *)
\* the regulation hibernating already at the threshold
RegulatedAtThreshold(time_since_access) ==
    IF time_since_access >= hibernation_threshold
    THEN hibernation_interval
    ELSE base_interval

\* lines 108-111: the interval chosen for a tick that measured time_since_access
Regulated(time_since_access) ==
    IF time_since_access > hibernation_threshold
    THEN hibernation_interval
    ELSE base_interval

\* line 126: now - self.last_capture_time >= self.interval_seconds
Due(t_now) == t_now - last_capture_time >= interval_seconds

\* lines 104, 107, 157-158: the loop test; a tick begins by measuring the time
\* since the last access; a worker that finds running cleared releases its
\* handle and exits
Loop(t) ==
    /\ wk[t].st = "loop"
    /\ IF running
       THEN wk' = [wk EXCEPT ![t].st = "regulate",
                             ![t].tsa = now - last_access_time]
       ELSE wk' = [wk EXCEPT ![t] = [Idle EXCEPT !.st = "dead"]]
    /\ ret' = NoRet
    /\ UNCHANGED << slot, device, regulator, lifecycle, last_capture_time,
                    prev_frame_gray, now, pc, arg, was, lastcap, seen >>

\* lines 150-151 and 104, 107: the sleep that ends a tick, lasting one of the
\* given numbers of seconds, and then the loop test; all other steps take no
\* time
SleepLoop(t, naps) ==
    /\ wk[t].st = "loop"
    /\ \E d \in naps :
          /\ now + d <= T0 + Horizon
          /\ now' = now + d
          /\ IF running
             THEN wk' = [wk EXCEPT ![t].st = "regulate",
                                   ![t].tsa = (now + d) - last_access_time]
             ELSE wk' = [wk EXCEPT ![t] = [Idle EXCEPT !.st = "dead"]]
    /\ ret' = NoRet
    /\ UNCHANGED << slot, device, regulator, lifecycle, last_capture_time,
                    prev_frame_gray, pc, arg, was, lastcap, seen >>

\* lines 108-111: metabolic regulation
Regulate(t) ==
    /\ wk[t].st = "regulate"
    /\ interval_seconds' = Regulated(wk[t].tsa)
    /\ wk' = [wk EXCEPT ![t].st = "open", ![t].tsa = 0]
    /\ ret' = NoRet
    /\ UNCHANGED << slot, device, base_interval, last_access_time, lifecycle,
                    last_capture_time, prev_frame_gray, now, pc, arg, was,
                    lastcap, seen >>

\* an acquisition that never raises the error flag
ErrorNotRaised(got) == FALSE

\* lines 116-121: the error flag after an acquisition, set when it returned
\* None and cleared when it returned a handle
ErrorAfterOpen(got) == got = NoCap

\* lines 114-122: acquire a device when none is held; on total failure set the
\* error flag and begin another tick after the 5 s sleep
Open(t, avails) ==
    /\ wk[t].st = "open"
    /\ IF wk[t].cap # NoCap
       THEN /\ wk' = [wk EXCEPT ![t].st = "capture"]
            /\ ret' = NoRet
            /\ UNCHANGED device
       ELSE \E avail \in avails :
               LET got == TryOpen(camera_index, avail)
               IN  /\ ret' = Acquisition(camera_index, avail, got)
                   /\ camera_error' = ErrorAfterOpen(got)
                   /\ IF got = NoCap
                      THEN /\ wk' = [wk EXCEPT ![t].st = "loop"]
                           /\ UNCHANGED camera_index
                      ELSE
                           /\ camera_index' = got
                           /\ wk' = [wk EXCEPT ![t].st = "capture", ![t].cap = got]
    /\ UNCHANGED << slot, regulator, lifecycle, last_capture_time,
                    prev_frame_gray, now, pc, arg, was, lastcap, seen >>

\* a failed read that keeps the handle
NotDropped(cap) == cap

\* lines 146-147: cap.release(); cap = None
Dropped(cap) == NoCap

\* an exception that ends the thread
Uncaught == "dead"

\* lines 153-155: an exception raised in the tick is caught inside the loop,
\* and after the 1 s sleep the worker is at the loop test again
Caught == "loop"

\* lines 125-134 and 143-151: the time gate, the read, the qualia and the
\* encoding; an exception raised by the encoding is caught at line 153
Capture(t, frames, faulty) ==
    /\ wk[t].st = "capture"
    /\ IF Due(now)
       THEN \/ /\ faulty                                    \* cap.read() gives no frame
               /\ camera_error' = TRUE
               /\ wk' = [wk EXCEPT ![t].st = "loop", ![t].cap = Dropped(wk[t].cap)]
               /\ UNCHANGED prev_frame_gray
            \/ \E frame \in frames :
                  /\ prev_frame_gray' = frame
                  /\ \/ wk' = [wk EXCEPT ![t].st = "publish",
                                         ![t].now = now,
                                         ![t].jpg = Encode(frame),
                                         ![t].brightness = Brightness(frame),
                                         ![t].motion = Motion(prev_frame_gray, frame)]
                     \/ /\ faulty                           \* imencode raises
                        /\ wk' = [wk EXCEPT ![t].st = Caught]
                  /\ UNCHANGED camera_error
       ELSE /\ wk' = [wk EXCEPT ![t].st = "loop"]
            /\ UNCHANGED << camera_error, prev_frame_gray >>
    /\ ret' = NoRet
    /\ UNCHANGED << slot, camera_index, regulator, lifecycle, last_capture_time,
                    now, pc, arg, was, lastcap, seen >>

\* lines 137-138: take the lock and store the image
Publish(t) ==
    /\ wk[t].st = "publish"
    /\ LockFree
    /\ lock' = t
    /\ current_buffer' = wk[t].jpg
    /\ seen' = None
    /\ wk' = [wk EXCEPT ![t].st = "publish2"]
    /\ ret' = NoRet
    /\ UNCHANGED << current_brightness, current_motion, device, regulator,
                    lifecycle, last_capture_time, prev_frame_gray, now, pc, arg,
                    was, lastcap >>

\* lines 139-140: store brightness and motion and release the lock
Publish2(t) ==
    /\ wk[t].st = "publish2"
    /\ current_brightness' = wk[t].brightness
    /\ current_motion' = wk[t].motion
    /\ lock' = NoThread
    /\ wk' = [wk EXCEPT ![t].st = "stamp"]
    /\ ret' = NoRet
    /\ UNCHANGED << current_buffer, device, regulator, lifecycle,
                    last_capture_time, prev_frame_gray, now, pc, arg, was,
                    lastcap, seen >>

\* the record of the capture a worker is publishing
CaptureOf(t) == [image |-> wk[t].jpg, brightness |-> wk[t].brightness,
                 motion |-> wk[t].motion, timestamp |-> wk[t].now]

\* line 142: self.last_capture_time = now
Stamp(t) ==
    /\ wk[t].st = "stamp"
    /\ last_capture_time' = wk[t].now
    /\ lastcap' = CaptureOf(t)
    /\ wk' = [wk EXCEPT ![t] = [Idle EXCEPT !.st = "loop", !.cap = wk[t].cap]]
    /\ ret' = NoRet
    /\ UNCHANGED << slot, device, regulator, lifecycle, prev_frame_gray, now,
                    pc, arg, was, seen >>

(* --------------------------- specifications --------------------------- *)
Start(c) == StartCheck(c) \/ StartSet(c) \/ StartCreate(c) \/ StartRun(c)
Stop(c) == StopSet(c) \/ StopJoin(c) \/ StopWait(c)
ConfigureEye(c, intervals) == SetBase(c, intervals) \/ SetEff(c) \/ SetTouch(c)
GetVision(c) == GetTouch(c) \/ GetRead(c)

Worker(t, avails, frames, faulty) ==
    \/ Loop(t) \/ Regulate(t) \/ Open(t, avails) \/ Capture(t, frames, faulty)
    \/ Publish(t) \/ Publish2(t) \/ Stamp(t)

\* the caller thread of the one-caller specification
Clients == {1}

\* one caller thread issues start, stop, configure_eye and get_vision, one
\* call after the other, while the workers run, devices come and go, reads
\* and encodings fail and time passes
Next ==
    \/ Advance(Instants)
    \/ \E c \in Clients :
          Start(c) \/ Stop(c) \/ ConfigureEye(c, Intervals) \/ GetVision(c)
    \/ \E t \in Threads : Worker(t, AvailSets, Frames, TRUE)

Spec == Init /\ [][Next]_vars

\* several caller threads start and stop the manager concurrently; the device
\* opens and delivers frames
NextLife ==
    \/ \E c \in Callers : Start(c) \/ Stop(c)
    \/ \E t \in Threads : Worker(t, {{0}}, {Dark}, FALSE)

SpecLife == Init /\ [][NextLife]_vars

\* the scheduler runs every thread that can take a step: a worker in its loop,
\* and a caller inside a call (nothing obliges a caller to make another call)
Scheduling ==
    /\ \A t \in Threads : WF_vars(Worker(t, {{0}}, {Dark}, FALSE))
    /\ \A c \in Callers :
          WF_vars(StartSet(c) \/ StartCreate(c) \/ StartRun(c)
                  \/ StopJoin(c) \/ StopWait(c))

FairLife == SpecLife /\ Scheduling

\* one caller thread starts, stops and reads the manager while devices come
\* and go and reads fail; no time passes
NextEye ==
    \/ \E c \in Clients : Start(c) \/ Stop(c) \/ GetVision(c)
    \/ \E t \in Threads : Worker(t, {{}, {0}}, {Dark}, TRUE)

SpecEye == Init /\ [][NextEye]_vars

SchedulingEye ==
    /\ \A t \in Threads : WF_vars(Worker(t, {{}, {0}}, {Dark}, TRUE))
    /\ \A c \in Clients :
          WF_vars(StartSet(c) \/ StartCreate(c) \/ StartRun(c)
                  \/ StopJoin(c) \/ StopWait(c) \/ GetRead(c))

FairEye == SpecEye /\ SchedulingEye

\* the scenario of test_retina: set_interval(1.0), then start(), then reads,
\* with a device that opens and delivers frames; time passes only while the
\* worker sleeps, at most one second per tick
Naps == {0, 1}

NextSight ==
    \/ \E c \in Clients :
          \/ base_interval = initial_interval /\ SetBase(c, {1})
          \/ SetEff(c) \/ SetTouch(c)
          \/ base_interval # initial_interval /\ (Start(c) \/ GetVision(c))
    \/ \E t \in Threads :
          \/ SleepLoop(t, Naps) \/ Regulate(t) \/ Open(t, {{0}})
          \/ Capture(t, Frames, FALSE)
          \/ Publish(t) \/ Publish2(t) \/ Stamp(t)

SpecSight == Init /\ [][NextSight]_vars

SchedulingSight ==
    /\ \A t \in Threads :
          WF_vars(SleepLoop(t, Naps) \/ Regulate(t) \/ Open(t, {{0}})
                  \/ Capture(t, Frames, FALSE)
                  \/ Publish(t) \/ Publish2(t) \/ Stamp(t))
    /\ \A c \in Clients :
          WF_vars(SetEff(c) \/ SetTouch(c) \/ StartSet(c) \/ StartCreate(c)
                  \/ StartRun(c) \/ GetRead(c))

FairSight == SpecSight /\ SchedulingSight

(* ------------------------------ C1 ------------------------------------- *)
Max0(x) == IF x < 0 THEN 0 ELSE x

\* C1: whenever a get_vision() call returns, its status is BLIND exactly when
\* the device error flag is set (whether or not an image is stored), DARKNESS
\* exactly when the flag is clear and no image has ever been stored, and
\* SIGHT otherwise; a SIGHT result carries the stored image, the stored
\* brightness and motion (to two decimals), the effective interval, the device
\* index and the capture timestamp.  No step of get_vision raises.
C1_VisionStatus ==
    /\ lastcap # None => current_buffer # None
    /\ ret.val.op = "get_vision" =>
          LET v == ret.val IN
          /\ v.status \in {"BLIND", "DARKNESS", "SIGHT"}
          /\ (v.status = "BLIND") <=> camera_error
          /\ (v.status = "DARKNESS") <=> (~camera_error /\ current_buffer = None)
          /\ v.status = "BLIND" => v.error = "All cameras disconnected."
          /\ v.status = "SIGHT" =>
                /\ v.image_base64 = current_buffer
                /\ v.image_base64 # None
                /\ v.brightness = Round2(current_brightness)
                /\ v.motion = Round2(current_motion)
                /\ v.interval = interval_seconds
                /\ v.camera_id = camera_index
                /\ v.timestamp = last_capture_time

\* a call returned BLIND although an image is stored
C1_Witness ==
    /\ ret.val.op = "get_vision"
    /\ ret.val.status = "BLIND"
    /\ current_buffer # None

(* ------------------------------ C2 ------------------------------------- *)
\* the captures a reader may see: the last one published in full and those
\* a worker is publishing
Publishing == {t \in Threads : wk[t].st \in {"publish", "publish2", "stamp"}}
Visible == (IF lastcap = None THEN {} ELSE {lastcap})
               \cup {CaptureOf(t) : t \in Publishing}

\* C2: the image, brightness, motion and capture timestamp of every SIGHT
\* result all come from one and the same successful capture, the one being
\* published or the one before it
C2_NoTornReads ==
    (ret.val.op = "get_vision" /\ ret.val.status = "SIGHT") =>
        \E k \in Visible :
            /\ ret.val.image_base64 = k.image
            /\ ret.val.brightness = Round2(k.brightness)
            /\ ret.val.motion = Round2(k.motion)
            /\ ret.val.timestamp = k.timestamp

(* ------------------------------ C3 ------------------------------------- *)
StopReturns(c) ==
    /\ pc[c] \in {"stop_join", "stop_wait"}
    /\ ret'.by = c
    /\ ret'.val = [op |-> "stop", outcome |-> "returned"]

\* C3: when a stop() call returns, every worker that was running when it was
\* called has exited and holds no device handle
C3_StopJoinsWorker ==
    [][\A c \in Callers :
          StopReturns(c) =>
              \A t \in was[c] : wk'[t].st = "dead" /\ wk'[t].cap = NoCap]_vars

(* ------------------------------ C4 ------------------------------------- *)
\* C4: under fair scheduling every stop() call that has begun comes to an end
C4_StopTerminates ==
    \A c \in Callers : (pc[c] \in {"stop_join", "stop_wait"}) ~> (pc[c] = "idle")

(* ------------------------------ C5 ------------------------------------- *)
\* C5: at most one capture loop worker is alive at any time
C5_SingleWorker == Cardinality(AliveSet) <= 1

(* ------------------------------ C6 ------------------------------------- *)
\* C6: a start() call that finds running set changes nothing and spawns no
\* worker; a start() call that finds running clear sets running and, when it
\* returns, has started exactly one worker
C6_StartIdempotent ==
    [][\A c \in Callers :
          /\ (pc[c] = "idle" /\ running /\ ret'.by = c /\ ret'.val.op = "start") =>
                /\ ret'.val.outcome = "noop"
                /\ UNCHANGED << slot, device, regulator, lifecycle,
                                last_capture_time, prev_frame_gray, wk, pc >>
          /\ (pc[c] = "idle" /\ pc'[c] = "start_set") => ~running
          /\ (pc[c] = "start_set" /\ pc'[c] # "start_set") =>
                running' /\ AliveSet' = AliveSet
          /\ (pc[c] = "start_create" /\ pc'[c] # "start_create") =>
                AliveSet' = AliveSet
          /\ (pc[c] = "start_run" /\ pc'[c] # "start_run") =>
                /\ ret'.val = [op |-> "start", outcome |-> "spawned"]
                /\ Cardinality(AliveSet') = Cardinality(AliveSet) + 1]_vars

(* ------------------------------ C7 ------------------------------------- *)
\* C7: the base interval is never negative, and once set_interval(x) has
\* assigned it, it is max(0, x)
C7_BaseClamped ==
    /\ base_interval >= 0
    /\ \A c \in Clients :
          pc[c] \in {"set_eff", "set_touch"} => base_interval = Max0(arg[c])

\* set_interval was called with a negative interval
C7_Witness ==
    \E c \in Clients : pc[c] = "set_touch" /\ arg[c] < 0 /\ base_interval = 0

(* ------------------------------ C8 ------------------------------------- *)
\* C8: the string configure_eye returns names the interval that was applied,
\* the base interval now stored
C8_NamesApplied ==
    ret.val.op = "configure_eye" => ret.val.names = base_interval

(* ------------------------------ C9 ------------------------------------- *)
Regulating(t) == wk[t].st = "regulate" /\ wk'[t].st # "regulate"
SettingEff(c) == pc[c] = "set_eff" /\ pc'[c] # "set_eff"
RuleNow ==
    IF now - last_access_time > hibernation_threshold
    THEN hibernation_interval
    ELSE base_interval

\* C9: every write to the effective interval stores what the regulation rule
\* gives at the time of the write
C9_OnlyByRule ==
    [][((\E t \in Threads : Regulating(t)) \/ (\E c \in Callers : SettingEff(c))
            \/ interval_seconds' # interval_seconds)
        => interval_seconds' = RuleNow]_vars

\* C9 as amended: the effective interval is written only by a tick's
\* regulation and by set_interval; a tick stores the hibernation interval if
\* the time since the last access it measured when it began is strictly
\* greater than the threshold and the base interval otherwise; set_interval
\* stores the base interval it has just assigned, without consulting the rule
C9_WritesOfInterval ==
    [][/\ \A t \in Threads :
             /\ (wk[t].st = "loop" /\ wk'[t].st = "regulate") =>
                    wk'[t].tsa = now - last_access_time
             /\ Regulating(t) =>
                    interval_seconds' =
                        IF wk[t].tsa >= hibernation_threshold + 1
                        THEN hibernation_interval
                        ELSE base_interval
       /\ \A c \in Callers : SettingEff(c) => interval_seconds' = base_interval
       /\ interval_seconds' # interval_seconds =>
             \/ \E t \in Threads : Regulating(t)
             \/ \E c \in Callers : SettingEff(c)]_vars

\* set_interval has stored the base interval in a hibernating manager, where
\* the rule gives the hibernation interval
C9_Witness ==
    \E c \in Clients :
        /\ pc[c] = "set_touch"
        /\ interval_seconds = base_interval
        /\ now - last_access_time > hibernation_threshold

(* ------------------------------ C10 ------------------------------------ *)
Touching(c) ==
    \/ pc[c] = "idle" /\ pc'[c] = "get_read"
    \/ pc[c] = "set_touch" /\ pc'[c] = "idle"

\* C10: the last access time moves only when get_vision or set_interval
\* touches it, and then to the current time; a tick that begins more than the
\* threshold after the last touch stores the hibernation interval, and a tick
\* that begins after a later get_vision (within the threshold of it) stores
\* the base interval again
C10_HibernateAndWake ==
    [][/\ \A c \in Callers : Touching(c) => last_access_time' = now
       /\ last_access_time' # last_access_time => \E c \in Callers : Touching(c)
       /\ \A t \in Threads :
             /\ (wk[t].st = "loop" /\ wk'[t].st = "regulate") =>
                    /\ now - last_access_time > hibernation_threshold
                           => wk'[t].tsa > hibernation_threshold
                    /\ now - last_access_time <= hibernation_threshold
                           => wk'[t].tsa <= hibernation_threshold
             /\ (Regulating(t) /\ wk[t].tsa > hibernation_threshold) =>
                    interval_seconds' = hibernation_interval
             /\ (Regulating(t) /\ wk[t].tsa <= hibernation_threshold) =>
                    interval_seconds' = base_interval]_vars

\* a hibernating manager was read, and the tick that began after the read is
\* about to store the base interval
C10_Witness ==
    \E t \in Threads :
        /\ wk[t].st = "regulate"
        /\ wk[t].tsa <= hibernation_threshold
        /\ interval_seconds = hibernation_interval
        /\ last_access_time > T0 + hibernation_threshold
        /\ \A c \in Clients : pc[c] = "idle"

(* ------------------------------ C11 ------------------------------------ *)
Acquiring == ret'.val.op = "try_open"
OthersOpen(index, avail) ==
    {i \in 0..3 : i # index /\ i \in avail}

\* C11: a device acquisition tries the manager's current device index first;
\* if that one does not open it takes the lowest index of 0..3 other than the
\* current one that opens, which becomes the manager's device index (and so
\* the index the next acquisition tries first); if none opens the acquisition
\* fails and the device index stays as it was; nothing else moves the index
C11_Failover ==
    [][/\ Acquiring =>
             LET e == ret'.val
                 others == OthersOpen(e.index, e.avail)
             IN  /\ e.index = camera_index
                 /\ e.index \in e.avail =>
                        e.got = e.index /\ camera_index' = camera_index
                 /\ (e.index \notin e.avail /\ others # {}) =>
                        e.got = MinOf(others) /\ camera_index' = e.got
                 /\ (e.index \notin e.avail /\ others = {}) =>
                        e.got = NoCap /\ camera_index' = camera_index
                 /\ e.got # NoCap =>
                        \E t \in Threads : wk[t].cap = NoCap /\ wk'[t].cap = e.got
       /\ camera_index' # camera_index => Acquiring]_vars

\* an acquisition after a failover to index 2 tried index 2 first and got it
C11_Witness ==
    /\ ret.val.op = "try_open"
    /\ ret.val.index = 2
    /\ ret.val.got = 2
    /\ camera_index = 2

(* ------------------------------ C12 ------------------------------------ *)
Acquired == ret'.val.op = "try_open" /\ ret'.val.got # NoCap

\* C12: a running worker that holds no device sets the error flag unless an
\* acquisition succeeds (or the worker is stopped first); the flag, once set,
\* is cleared only by a successful acquisition; every get_vision() call comes
\* to an end and returns BLIND, with an error field, whenever the flag is set
C12_BlindUntilAcquired ==
    /\ \A t \in Threads :
          (Alive(t) /\ wk[t].cap = NoCap)
              ~> (camera_error \/ wk[t].cap # NoCap \/ ~Alive(t))
    /\ \A c \in Clients : (pc[c] = "get_read") ~> (pc[c] = "idle")
    /\ [][(camera_error /\ ~camera_error') => Acquired]_vars
    /\ [][\A c \in Clients :
              (pc[c] = "get_read" /\ pc'[c] = "idle" /\ camera_error) =>
                  /\ ret'.by = c
                  /\ ret'.val.status = "BLIND"
                  /\ ret'.val.error = "All cameras disconnected."]_vars

\* with a running worker that found no device, before any capture, a
\* get_vision() call returned BLIND
C12_Witness ==
    /\ ret.val.op = "get_vision"
    /\ ret.val.status = "BLIND"
    /\ current_buffer = None
    /\ running
    /\ \E t \in Threads : Alive(t) /\ wk[t].cap = NoCap

(* ------------------------------ C13 ------------------------------------ *)
\* C13: once start() has been called on a fresh manager, a get_vision() call
\* that reads the slot before any image has been stored returns DARKNESS
C13_DarknessBeforeCapture ==
    (ret.val.op = "get_vision" /\ thread # NoThread /\ current_buffer = None)
        => ret.val.status = "DARKNESS"

\* C13 as amended: such a call returns DARKNESS while the error flag is clear
\* and BLIND once the worker has failed to acquire a device or to read a
\* frame; the flag is never set before a worker has been started
C13_DarknessOrBlind ==
    /\ camera_error => thread # NoThread
    /\ (ret.val.op = "get_vision" /\ current_buffer = None) =>
          /\ ~camera_error => ret.val.status = "DARKNESS"
          /\ camera_error => ret.val.status = "BLIND"
          /\ ret.val.timestamp = now

\* a call returned DARKNESS while the worker had read its first frame and was
\* about to store it
C13_Witness ==
    /\ ret.val.op = "get_vision"
    /\ ret.val.status = "DARKNESS"
    /\ current_buffer = None
    /\ \E t \in Threads : wk[t].st = "publish"

(* ------------------------------ C14 ------------------------------------ *)
Reading(c) ==
    \/ pc[c] = "idle" /\ pc'[c] = "get_read"
    \/ pc[c] = "get_read" /\ pc'[c] = "idle"

\* C14: a get_vision() call that returns SIGHT returns the very image,
\* brightness, motion and capture timestamp that the previous SIGHT result
\* carried, unless a capture was published between the two calls; and a
\* get_vision() call changes nothing of the manager but the last access time
C14_IdempotentRead ==
    [][\A c \in Callers :
          /\ (pc[c] = "get_read" /\ pc'[c] = "idle"
                 /\ ret'.val.status = "SIGHT" /\ seen # None) =>
                CapturedRecord(ret'.val) = seen
          /\ Reading(c) =>
                UNCHANGED << slot, device, interval_seconds, base_interval,
                             lifecycle, last_capture_time, prev_frame_gray,
                             wk >>]_vars

(* ------------------------------ C15 ------------------------------------ *)
OpenFailed(t) ==
    wk[t].st = "open" /\ ret'.val.op = "try_open" /\ ret'.val.got = NoCap
ReadFailed(t) ==
    wk[t].st = "capture" /\ wk[t].cap # NoCap /\ wk'[t].cap = NoCap
Raised(t) ==
    /\ wk[t].st = "capture" /\ Due(now)
    /\ wk'[t].cap = wk[t].cap
    /\ wk'[t].st \notin {"capture", "publish"}

\* C15: a tick that fails (no device opens, the read gives no frame, or an
\* exception is raised) leaves the worker alive at the loop test; a worker at
\* the loop test begins another tick unless running has been cleared; a
\* worker exits only at the loop test with running cleared, and only stop()
\* clears running
C15_LoopSurvivesFailure ==
    /\ [][\A t \in Threads :
              /\ (OpenFailed(t) \/ ReadFailed(t) \/ Raised(t)) =>
                     wk'[t].st = "loop"
              /\ (Alive(t) /\ wk'[t].st \notin {"loop", "regulate", "open",
                                                "capture", "publish", "publish2",
                                                "stamp"}) =>
                     wk[t].st = "loop" /\ ~running]_vars
    /\ [][(running /\ ~running') =>
              \E c \in Callers : pc[c] = "idle" /\ pc'[c] = "stop_join"]_vars
    /\ \A t \in Threads :
          (wk[t].st = "loop") ~> (wk[t].st = "regulate" \/ ~running)

\* the encoding of the first frame raised (the snapshot is stored, nothing is
\* published, the handle is kept) and the worker is at the loop test
C15_Witness ==
    \E t \in Threads :
        /\ wk[t].st = "loop"
        /\ wk[t].cap # NoCap
        /\ prev_frame_gray # None
        /\ current_buffer = None
        /\ running

(* ------------------------------ C16 ------------------------------------ *)
\* one tick of the worker: its longest sleep, in seconds
Tick == MaxOf(Naps)

\* C16: with a device that opens and delivers frames, after set_interval(1.0)
\* and start() the worker comes to publish a capture; every get_vision() call
\* comes to an end, and once a capture is published it returns SIGHT, with a
\* capture timestamp no older than the effective interval plus one tick
C16_SightStaysFresh ==
    /\ (\E t \in Threads : Alive(t)) ~> (current_buffer # None)
    /\ \A c \in Clients : (pc[c] = "get_read") ~> (pc[c] = "idle")
    /\ [](ret.val.op = "get_vision" =>
             /\ current_buffer # None => ret.val.status = "SIGHT"
             /\ ret.val.status = "SIGHT" =>
                    now - ret.val.timestamp <= ret.val.interval + Tick)

(* ------------------------------ C17 ------------------------------------ *)
ReadSucceeded(t) == wk[t].st = "capture" /\ wk'[t].st = "publish"

\* C17: a worker reads a frame only in a tick whose time is at least the
\* effective interval after the last capture timestamp; the timestamp of a
\* successful capture is at least the effective interval of its tick after
\* the timestamp of every successful capture before it; the last capture
\* timestamp moves only to the timestamp of a successful capture, and a
\* failed read leaves it alone
C17_TimeGate ==
    [][\A t \in Threads :
          /\ (wk[t].st = "capture" /\ wk'[t].st # "capture"
                 /\ now - last_capture_time < interval_seconds) =>
                /\ wk'[t].st = "loop"
                /\ wk'[t].cap = wk[t].cap
                /\ UNCHANGED << prev_frame_gray, camera_error >>
          /\ ReadSucceeded(t) =>
                /\ wk'[t].now = now
                /\ \A k \in Visible : now - k.timestamp >= interval_seconds
          /\ ReadFailed(t) => last_capture_time' = last_capture_time
          /\ last_capture_time' # last_capture_time =>
                \E u \in Threads :
                    wk[u].st = "stamp" /\ last_capture_time' = wk[u].now]_vars

(* ------------------------------ C18 ------------------------------------ *)
VoidRead(t) == wk[t].st = "capture" /\ ~camera_error /\ camera_error'

\* C18: a read that returns no frame sets the error flag and drops the device
\* handle in the same tick, and leaves the stored image, brightness, motion
\* and capture timestamp as they were; a worker reads only while it holds a
\* handle, and gets one only by an acquisition; the flag is cleared only by a
\* successful acquisition, and while it is set get_vision() returns BLIND
C18_VoidReadDropsDevice ==
    [][/\ \A t \in Threads :
             /\ VoidRead(t) =>
                    /\ wk'[t].cap = NoCap
                    /\ wk'[t].st = "loop"
                    /\ UNCHANGED << current_buffer, current_brightness,
                                    current_motion, last_capture_time >>
             /\ wk[t].st = "capture" => wk[t].cap # NoCap
             /\ (wk[t].cap = NoCap /\ wk'[t].cap # NoCap) =>
                    Acquired /\ wk[t].st = "open"
       /\ (camera_error /\ ~camera_error') => Acquired
       /\ \A c \in Callers :
             (pc[c] = "get_read" /\ pc'[c] = "idle" /\ camera_error) =>
                 ret'.val.status = "BLIND"]_vars

\* after a capture was published a read returned no frame: the worker holds
\* no handle and a get_vision() call returned BLIND
C18_Witness ==
    /\ ret.val.op = "get_vision"
    /\ ret.val.status = "BLIND"
    /\ lastcap # None
    /\ \E t \in Threads : Alive(t) /\ wk[t].cap = NoCap /\ wk[t].st = "regulate"

(* ------------------------------ C19 ------------------------------------ *)
\* C19: when a stop() call returns the manager holds no previous-frame
\* snapshot (so that a worker started afterwards analyses its first frame with
\* no prior frame)
C19_SnapshotDiscarded ==
    [][\A c \in Callers : StopReturns(c) => prev_frame_gray' = None]_vars

(* ------------------------------ C20 ------------------------------------ *)
\* a read that returned a frame: the handle is kept and the tick goes on to
\* the analysis of the frame
FrameRead(t) ==
    /\ wk[t].st = "capture" /\ Due(now)
    /\ wk'[t].st # "capture"
    /\ wk'[t].cap = wk[t].cap

\* the mean absolute difference of two images, in thousandths
MeanAbsDifference(a, b) ==
    (SumSeq([i \in 1..Len(a) |-> IF a[i] >= b[i] THEN a[i] - b[i]
                                                 ELSE b[i] - a[i]]) * 1000)
        \div Len(a)

\* C20: a capture is a read that returns a frame.  The motion of the first
\* capture, when no snapshot is stored, is 0; the motion of every later
\* capture is the mean absolute difference, never negative, between the new
\* frame and the snapshot, which is the frame of the capture before it; the
\* new frame then replaces the snapshot; the motion published with the image
\* is the one computed for that image
C20_Motion ==
    [][/\ \A t \in Threads :
             /\ FrameRead(t) => prev_frame_gray' \in Frames
             /\ ReadSucceeded(t) =>
                    /\ wk'[t].jpg = Encode(prev_frame_gray')
                    /\ wk'[t].motion >= 0
                    /\ prev_frame_gray = None => wk'[t].motion = 0
                    /\ prev_frame_gray # None =>
                           wk'[t].motion =
                               MeanAbsDifference(prev_frame_gray, prev_frame_gray')
             /\ (wk[t].st = "publish2" /\ wk'[t].st = "stamp") =>
                    /\ current_motion' = wk[t].motion
                    /\ current_buffer = wk[t].jpg
       /\ prev_frame_gray' # prev_frame_gray => \E t \in Threads : FrameRead(t)
       /\ prev_frame_gray = None => (lastcap = None /\ current_buffer = None)]_vars

\* a later capture whose frame differs from the snapshot is being published
C20_Witness ==
    \E t \in Threads :
        /\ wk[t].st = "publish"
        /\ wk[t].motion > 0
        /\ lastcap # None

====
